---- MODULE Spec2Model ----
\* Model of Source/Algorithm/LAGraph_tricount.c: tricount_prep (construction of
\* L and U) and LAGraph_tricount (six triangle-counting methods), as a state
\* machine over one call.  Sparse matrices are functions from stored positions
\* <<row, column>> (0-based) to stored values.
EXTENDS Integers, Sequences, FiniteSets, TLC

\* ------------------------------------------------------------------ bounds
MaxN == 3

\* ------------------------------------------------- inputs and build options
\* The three ranges of GxB_IMPLEMENTATION distinguished by the #if tests.
Versions == {"pre_3_0_1", "3_0_1", "3_2_0"}
HasSelect(v) == v \in {"3_0_1", "3_2_0"}
HasPair(v) == v = "3_2_0"

\* method values tried by a caller: the six methods and the two neighbours.
Methods == 0..7

\* Stored values of A: A is "of any type"; two ways of filling its entries.
Weightings == {"ones", "mixed"}
Weight(w, i, j) == IF w = "ones" THEN 1 ELSE (i * j + i) % 3

\* Status returned when an engine primitive fails.
FailureCodes == {"GrB_OUT_OF_MEMORY", "GrB_INVALID_OBJECT"}

\* Value of *ntri before the call.
NtriBefore == -1

Nodes(k) == 0..(k - 1)
EmptyMatrix == [p \in {} |-> 0]

\* Symmetric structures on k nodes, self-edges allowed.
SymmetricStructures(k) ==
    LET Below == {p \in Nodes(k) \X Nodes(k) : p[1] > p[2]}
    IN  {E \cup {<<p[2], p[1]>> : p \in E} \cup {<<d, d>> : d \in D} :
            E \in SUBSET Below, D \in SUBSET Nodes(k)}
InputMatrix(S, w) == [p \in S |-> Weight(w, p[1], p[2])]

\* ------------------------------------------------------- engine primitives
RECURSIVE SumValues(_, _)
SumValues(M, ps) ==
    IF ps = {} THEN 0
    ELSE LET p == CHOOSE q \in ps : TRUE IN M[p] + SumValues(M, ps \ {p})

\* typecast of a stored value to GrB_BOOL, held as 0/1
CastBool(v) == IF v = 0 THEN 0 ELSE 1

\* GxB_select (dst, NULL, NULL, op, M, thunk, NULL) into a GrB_BOOL matrix
GxB_select(op, M, k) ==
    LET keep == {p \in DOMAIN M :
                    IF op = "GxB_TRIL" THEN p[2] - p[1] <= k
                                       ELSE p[2] - p[1] >= k}
    IN  [p \in keep |-> CastBool(M[p])]

Transpose(M) ==
    [p \in {<<q[2], q[1]>> : q \in DOMAIN M} |-> M[<<p[2], p[1]>>]]

\* positions let through by a mask: structural (GrB_DESC_S, GrB_DESC_ST1) or
\* by value (NULL descriptor, LAGraph_desc_otoo)
MaskSet(M, structural) ==
    IF structural THEN DOMAIN M ELSE {p \in DOMAIN M : M[p] # 0}

\* faulty variant: the multiply operator reads its operands in every build
Multiply_times(pair, x, y) == x * y

\* multiply operator of the semiring: GxB_PLUS_PAIR_INT64 or
\* LAGraph_PLUS_TIMES_INT64
Multiply(pair, x, y) == IF pair THEN 1 ELSE x * y

RECURSIVE DotProduct(_, _, _, _, _, _)
DotProduct(pair, MA, MB, i, j, ks) ==
    IF ks = {} THEN 0
    ELSE LET k == CHOOSE x \in ks : TRUE
         IN  Multiply(pair, MA[<<i, k>>], MB[<<k, j>>])
               + DotProduct(pair, MA, MB, i, j, ks \ {k})

\* GrB_mxm (C, Mask, NULL, s, MA, MB, desc) on an empty C
GrB_mxm(k, Mask, structural, pair, MA, MB0, tran1) ==
    LET MB == IF tran1 THEN Transpose(MB0) ELSE MB0
        Common(i, j) == {x \in Nodes(k) : <<i, x>> \in DOMAIN MA
                                          /\ <<x, j>> \in DOMAIN MB}
        P == {p \in MaskSet(Mask, structural) : Common(p[1], p[2]) # {}}
    IN  [p \in P |-> DotProduct(pair, MA, MB, p[1], p[2], Common(p[1], p[2]))]

\* GrB_reduce (ntri, NULL, LAGraph_PLUS_INT64_MONOID, C, NULL)
GrB_reduce(M) == SumValues(M, DOMAIN M)

\* GrB_Matrix_extractTuples: the stored entries, row by row
RECURSIVE TuplesOf(_, _)
TuplesOf(M, ps) ==
    IF ps = {} THEN <<>>
    ELSE LET p == CHOOSE q \in ps : \A r \in ps :
                      q[1] < r[1] \/ (q[1] = r[1] /\ q[2] <= r[2])
         IN  <<p>> \o TuplesOf(M, ps \ {p})
GrB_Matrix_extractTuples(M) ==
    LET t == TuplesOf(M, DOMAIN M)
    IN  [I |-> [x \in 1..Len(t) |-> t[x][1]],
         J |-> [x \in 1..Len(t) |-> t[x][2]],
         X |-> [x \in 1..Len(t) |-> CastBool(M[t[x]])],
         nvals |-> Len(t), nedges |-> 0]

\* faulty variant: the loop keeps the entries above the diagonal instead
RECURSIVE RemoveUpper_keepsUpper(_, _, _)
RemoveUpper_keepsUpper(T, k, ne) ==
    IF k > T.nvals THEN [T EXCEPT !.nedges = ne]
    ELSE IF T.I[k] < T.J[k]
         THEN RemoveUpper_keepsUpper([T EXCEPT !.I[ne + 1] = T.I[k],
                                               !.J[ne + 1] = T.J[k],
                                               !.X[ne + 1] = T.X[k]],
                                     k + 1, ne + 1)
         ELSE RemoveUpper_keepsUpper(T, k + 1, ne)

\* the loop that removes the entries in the upper triangular part, in place:
\* entry k (1-based here) is copied down to slot nedges when I [k] > J [k]
RECURSIVE RemoveUpper(_, _, _)
RemoveUpper(T, k, ne) ==
    IF k > T.nvals THEN [T EXCEPT !.nedges = ne]
    ELSE IF T.I[k] > T.J[k]
         THEN RemoveUpper([T EXCEPT !.I[ne + 1] = T.I[k],
                                    !.J[ne + 1] = T.J[k],
                                    !.X[ne + 1] = T.X[k]], k + 1, ne + 1)
         ELSE RemoveUpper(T, k + 1, ne)
NoTuples == [I |-> <<>>, J |-> <<>>, X |-> <<>>, nvals |-> 0, nedges |-> 0]

\* GrB_Matrix_build (dst, rows, cols, vals, count, GrB_LOR)
RECURSIVE LorAll(_, _)
LorAll(vals, ks) ==
    IF ks = {} THEN 0
    ELSE LET k == CHOOSE x \in ks : TRUE
         IN  IF vals[k] # 0 THEN 1 ELSE LorAll(vals, ks \ {k})
GrB_Matrix_build(rows, cols, vals, count) ==
    LET P == {<<rows[x], cols[x]>> : x \in 1..count}
    IN  [p \in P |-> LorAll(vals, {x \in 1..count : <<rows[x], cols[x]>> = p})]

\* ------------------------------------------------------ the switch (method)
UsesPrep(m) == m \in 2..6
\* which of the pointers L and U tricount_prep is given
WantL(m) == m \in {2, 3, 5, 6}
\* faulty variant: cases 5 and 6 pass NULL for U
WantU_notForDot(m) == m \in {2, 4}
WantU(m) == m \in {2, 4, 5, 6}
\* LAGr_mxm (C, mask, NULL, s, a, b, desc) of each case
MxmArgs(m) ==
    CASE m = 1 -> [mask |-> "A", a |-> "A", b |-> "A", desc |-> "desc_s"]
      [] m = 2 -> [mask |-> "A", a |-> "L", b |-> "U", desc |-> "desc_s"]
      [] m = 3 -> [mask |-> "L", a |-> "L", b |-> "L", desc |-> "desc_s"]
      [] m = 4 -> [mask |-> "U", a |-> "U", b |-> "U", desc |-> "desc_s"]
      [] m = 5 -> [mask |-> "L", a |-> "L", b |-> "U", desc |-> "desc_st1"]
      [] m = 6 -> [mask |-> "U", a |-> "U", b |-> "L", desc |-> "desc_st1"]
\* (*ntri) /= 6 and (*ntri) /= 2
HasDivide(m) == m \in {1, 2}
Divisor(m) == IF m = 1 THEN 6 ELSE 2

\* faulty variant: the two thunks exchanged
ThunkValue_swapped(l) == IF l = "p_setL" THEN 1 ELSE -1
\* faulty variant: both thunks 0, so that the diagonal is kept
ThunkValue_zero(l) == 0
\* thunk of L = tril (A,-1) and of U = triu (A,1)
ThunkValue(l) == IF l = "p_setL" THEN -1 ELSE 1
\* select operator of L and of U
SelectOp(l) == IF l = "p_selL" THEN "GxB_TRIL" ELSE "GxB_TRIU"

\* desc_s and desc_st1 as set by the #if on the version
StructuralMask(v) == HasPair(v)
TransposeSecond(desc) == desc = "desc_st1"

\* -------------------------------------------------------------------- state
VARIABLES version, method, A,        \* the build and the arguments
          pc, info, ntri,            \* program point, returned status, *ntri
          n, C, L, U,                \* locals of LAGraph_tricount
          thunkSet, thunkVal,        \* thunk of tricount_prep
          T,                         \* I, J, X, nedges of tricount_prep
          live,                      \* objects allocated and not yet freed
          nalloc,                    \* number of allocations performed
          failedAt, failedInfo,      \* the primitive that failed, its status
          trace                      \* the primitives issued so far

vars == <<version, method, A, pc, info, ntri, n, C, L, U, thunkSet, thunkVal,
          T, live, nalloc, failedAt, failedInfo, trace>>

Init ==
    /\ version \in Versions
    /\ method \in Methods
    /\ \E k \in 1..MaxN : \E S \in SymmetricStructures(k) :
          \E w \in Weightings : A = [dim |-> k, m |-> InputMatrix(S, w)]
    /\ pc = "nrows"
    /\ info = "none"
    /\ ntri = NtriBefore
    /\ n = 0
    /\ C = EmptyMatrix /\ L = EmptyMatrix /\ U = EmptyMatrix
    /\ thunkSet = FALSE /\ thunkVal = 0
    /\ T = NoTuples
    /\ live = {}
    /\ nalloc = 0
    /\ failedAt = "none" /\ failedInfo = "none"
    /\ trace = <<>>

\* ---------------------------------------------------------- program points
InPrep(l) == l \in {"p_nrows", "p_scalar_new", "p_newL", "p_setL", "p_selL",
                    "p_newU", "p_setU", "p_selU", "p_nvals", "p_malloc",
                    "p_extract", "p_filter", "p_buildL", "p_buildU", "p_free"}

\* what follows the part of tricount_prep guarded by if (U != NULL)
AfterU == "p_free"
\* what follows the part guarded by if (L != NULL)
AfterL == IF WantU(method) THEN "p_newU" ELSE AfterU
\* the first statement after thunk / the tuples are ready
FirstBuild == IF WantL(method) THEN "p_newL" ELSE AfterL

\* the statements of tricount_prep, in order, for the compiled branch
PrepNext(l) ==
    CASE l = "p_nrows"      -> IF HasSelect(version) THEN "p_scalar_new"
                               ELSE IF WantL(method) \/ WantU(method)
                                    THEN "p_nvals" ELSE "p_free"
      [] l = "p_scalar_new" -> FirstBuild
      [] l = "p_nvals"      -> "p_malloc"
      [] l = "p_malloc"     -> "p_extract"
      [] l = "p_extract"    -> "p_filter"
      [] l = "p_filter"     -> FirstBuild
      [] l = "p_newL"       -> IF HasSelect(version) THEN "p_setL" ELSE "p_buildL"
      [] l = "p_setL"       -> "p_selL"
      [] l = "p_selL"       -> AfterL
      [] l = "p_buildL"     -> AfterL
      [] l = "p_newU"       -> IF HasSelect(version) THEN "p_setU" ELSE "p_buildU"
      [] l = "p_setU"       -> "p_selU"
      [] l = "p_selU"       -> AfterU
      [] l = "p_buildU"     -> AfterU

\* faulty variant: each case reduces C into *ntri before its mxm
TricountNext_reduceFirst(l, m) ==
    CASE l = "nrows"  -> "newC"
      [] l = "newC"   -> "switch"
      [] l = "switch" -> IF m = 1 THEN "reduce"
                         ELSE IF UsesPrep(m) THEN "p_nrows" ELSE "done"
      [] l = "p_free" -> "reduce"
      [] l = "reduce" -> "mxm"
      [] l = "mxm"    -> IF HasDivide(m) THEN "divide" ELSE "free_all"
      [] l = "divide" -> "free_all"

\* the statements of LAGraph_tricount, in order; "p_free" is the return of
\* tricount_prep into the case that called it
TricountNext(l, m) ==
    CASE l = "nrows"  -> "newC"
      [] l = "newC"   -> "switch"
      [] l = "switch" -> IF m = 1 THEN "mxm"
                         ELSE IF UsesPrep(m) THEN "p_nrows" ELSE "done"
      [] l = "p_free" -> "mxm"
      [] l = "mxm"    -> "reduce"
      [] l = "reduce" -> IF HasDivide(m) THEN "divide" ELSE "free_all"
      [] l = "divide" -> "free_all"

NextPc(l) == IF InPrep(l) /\ l # "p_free" THEN PrepNext(l)
             ELSE TricountNext(l, method)

\* ------------------------------------------------------------- error exits
\* LAGRAPH_FREE_ALL of tricount_prep: GrB_free (&thunk), GrB_free (L),
\* GrB_free (U), where L and U are the pointers the caller passed
PrepFreeAll(lv) ==
    lv \ ({"thunk"} \cup (IF WantL(method) THEN {"L"} ELSE {})
                    \cup (IF WantU(method) THEN {"U"} ELSE {}))
\* LAGRAPH_FREE_ALL of LAGraph_tricount
TricountFreeAll(lv) == lv \ {"C", "L", "U"}

\* LAGRAPH_OK: the statuses that let the caller go on
Accepted(r) == r \in {"GrB_SUCCESS", "GrB_NO_VALUE"}

\* what tricount_prep hands back when control reaches its closing brace: the
\* function has no return statement, so the value LAGRAPH_OK reads is
\* indeterminate
PrepReturnValues == {"GrB_SUCCESS", "indeterminate"}

\* the call returns status s after the cleanup of the failing function and of
\* its caller
Unwind(s, lv) ==
    /\ pc' = "done"
    /\ info' = s
    /\ live' = TricountFreeAll(IF InPrep(pc) THEN PrepFreeAll(lv) ELSE lv)

\* GrB_free (&thunk) of a thunk that was never assigned reads an
\* uninitialized handle: the free may fault, or find nothing to free
Crash(lv) ==
    /\ pc' = "crashed"
    /\ live' = lv
    /\ UNCHANGED info

\* the primitive at pc fails with status s; lv is what is allocated and ts
\* tells whether thunk has been assigned when the cleanup starts
Abort(s, lv, ts) ==
    /\ failedAt' = pc
    /\ failedInfo' = s
    /\ trace' = Append(trace, pc)
    /\ thunkSet' = ts
    /\ IF InPrep(pc) /\ ~ts
       THEN Crash(lv) \/ Unwind(s, lv)
       ELSE Unwind(s, lv)

\* the primitive at pc succeeds
Proceed(lv, ts) ==
    /\ pc' = NextPc(pc)
    /\ trace' = Append(trace, pc)
    /\ live' = lv
    /\ thunkSet' = ts
    /\ UNCHANGED <<info, failedAt, failedInfo>>

Operand(name) == CASE name = "A" -> A.m [] name = "L" -> L [] name = "U" -> U

\* ------------------------------------------------------------------ actions
\* LAGr_Matrix_nrows (&n, A), in LAGraph_tricount and in tricount_prep
Matrix_nrows ==
    /\ pc \in {"nrows", "p_nrows"}
    /\ \/ Proceed(live, thunkSet) /\ n' = A.dim
       \/ (\E s \in FailureCodes : Abort(s, live, thunkSet)) /\ UNCHANGED n
    /\ UNCHANGED <<version, method, A, ntri, C, L, U, thunkVal, T, nalloc>>

\* LAGr_Matrix_new of C, of *L and of *U
Matrix_new ==
    /\ pc \in {"newC", "p_newL", "p_newU"}
    /\ LET obj == CASE pc = "newC" -> "C" [] pc = "p_newL" -> "L"
                    [] pc = "p_newU" -> "U"
       IN  \/ /\ Proceed(live \cup {obj}, thunkSet)
              /\ nalloc' = nalloc + 1
              /\ C' = IF obj = "C" THEN EmptyMatrix ELSE C
              /\ L' = IF obj = "L" THEN EmptyMatrix ELSE L
              /\ U' = IF obj = "U" THEN EmptyMatrix ELSE U
           \/ /\ \E s \in FailureCodes : Abort(s, live, thunkSet)
              /\ UNCHANGED <<nalloc, C, L, U>>
    /\ UNCHANGED <<version, method, A, ntri, n, thunkVal, T>>

\* switch (method): case 1 goes to its mxm, cases 2 to 6 call tricount_prep,
\* default returns GrB_INVALID_VALUE
Switch ==
    /\ pc = "switch"
    /\ pc' = NextPc(pc)
    /\ info' = IF pc' = "done" THEN "GrB_INVALID_VALUE" ELSE info
    /\ UNCHANGED <<version, method, A, ntri, n, C, L, U, thunkSet, thunkVal, T,
                   live, nalloc, failedAt, failedInfo, trace>>

\* LAGr_Scalar_new (&thunk, GrB_INT64); a failing GxB_Scalar_new leaves thunk
\* assigned (NULL), so the cleanup that follows reads a defined handle
Scalar_new ==
    /\ pc = "p_scalar_new"
    /\ \/ /\ Proceed(live \cup {"thunk"}, TRUE)
          /\ nalloc' = nalloc + 1
       \/ /\ \E s \in FailureCodes : Abort(s, live, TRUE)
          /\ UNCHANGED nalloc
    /\ UNCHANGED <<version, method, A, ntri, n, C, L, U, thunkVal, T>>

\* LAGr_Scalar_setElement (thunk, -1) and LAGr_Scalar_setElement (thunk, 1)
Scalar_setElement ==
    /\ pc \in {"p_setL", "p_setU"}
    /\ \/ /\ Proceed(live, thunkSet)
          /\ thunkVal' = ThunkValue(pc)
       \/ /\ \E s \in FailureCodes : Abort(s, live, thunkSet)
          /\ UNCHANGED thunkVal
    /\ UNCHANGED <<version, method, A, ntri, n, C, L, U, T, nalloc>>

\* LAGr_select (*L, ..., GxB_TRIL, A, thunk, NULL) and
\* LAGr_select (*U, ..., GxB_TRIU, A, thunk, NULL)
Select ==
    /\ pc \in {"p_selL", "p_selU"}
    /\ \/ /\ Proceed(live, thunkSet)
          /\ IF pc = "p_selL"
             THEN L' = GxB_select(SelectOp(pc), A.m, thunkVal) /\ UNCHANGED U
             ELSE U' = GxB_select(SelectOp(pc), A.m, thunkVal) /\ UNCHANGED L
       \/ /\ \E s \in FailureCodes : Abort(s, live, thunkSet)
          /\ UNCHANGED <<L, U>>
    /\ UNCHANGED <<version, method, A, ntri, n, C, thunkVal, T, nalloc>>

\* LAGr_Matrix_nvals (&nvals, A)
Matrix_nvals ==
    /\ pc = "p_nvals"
    /\ \/ /\ Proceed(live, thunkSet)
          /\ T' = [T EXCEPT !.nvals = Cardinality(DOMAIN A.m)]
       \/ /\ \E s \in FailureCodes : Abort(s, live, thunkSet)
          /\ UNCHANGED T
    /\ UNCHANGED <<version, method, A, ntri, n, C, L, U, thunkVal, nalloc>>

\* the three LAGraph_malloc (nvals, ...) and the test that follows them
Malloc ==
    /\ pc = "p_malloc"
    /\ \/ /\ Proceed(live \cup {"I", "J", "X"}, thunkSet)
          /\ nalloc' = nalloc + 3
          /\ T' = [T EXCEPT !.I = [x \in 1..T.nvals |-> 0],
                            !.J = [x \in 1..T.nvals |-> 0],
                            !.X = [x \in 1..T.nvals |-> 0]]
       \/ /\ \E got \in (SUBSET {"I", "J", "X"}) \ {{"I", "J", "X"}} :
                /\ Abort("GrB_OUT_OF_MEMORY", live \cup got, thunkSet)
                /\ nalloc' = nalloc + Cardinality(got)
          /\ UNCHANGED T
    /\ UNCHANGED <<version, method, A, ntri, n, C, L, U, thunkVal>>

\* LAGr_Matrix_extractTuples (I, J, X, &nvals, A)
Matrix_extractTuples ==
    /\ pc = "p_extract"
    /\ \/ /\ Proceed(live, thunkSet)
          /\ T' = GrB_Matrix_extractTuples(A.m)
       \/ /\ \E s \in FailureCodes : Abort(s, live, thunkSet)
          /\ UNCHANGED T
    /\ UNCHANGED <<version, method, A, ntri, n, C, L, U, thunkVal, nalloc>>

\* nedges = 0 and the for loop over the nvals tuples
RemoveUpperLoop ==
    /\ pc = "p_filter"
    /\ Proceed(live, thunkSet)
    /\ T' = RemoveUpper(T, 1, 0)
    /\ UNCHANGED <<version, method, A, ntri, n, C, L, U, thunkVal, nalloc>>

\* LAGr_Matrix_build (*L, I, J, X, nedges, GrB_LOR) and
\* LAGr_Matrix_build (*U, J, I, X, nedges, GrB_LOR)
Matrix_build ==
    /\ pc \in {"p_buildL", "p_buildU"}
    /\ \/ /\ Proceed(live, thunkSet)
          /\ IF pc = "p_buildL"
             THEN L' = GrB_Matrix_build(T.I, T.J, T.X, T.nedges) /\ UNCHANGED U
             ELSE U' = GrB_Matrix_build(T.J, T.I, T.X, T.nedges) /\ UNCHANGED L
       \/ /\ \E s \in FailureCodes : Abort(s, live, thunkSet)
          /\ UNCHANGED <<L, U>>
    /\ UNCHANGED <<version, method, A, ntri, n, C, thunkVal, T, nalloc>>

\* the end of tricount_prep: LAGr_free (&thunk), or LAGRAPH_FREE of I, J, X,
\* then the closing brace, then LAGRAPH_OK in the caller
PrepReturn ==
    /\ pc = "p_free"
    /\ LET lv == IF HasSelect(version) THEN live \ {"thunk"}
                                       ELSE live \ {"I", "J", "X"}
       IN  \E r \in PrepReturnValues :
              IF Accepted(r)
              THEN pc' = NextPc(pc) /\ live' = lv /\ UNCHANGED info
              ELSE pc' = "done" /\ live' = TricountFreeAll(lv) /\ info' = r
    /\ trace' = Append(trace, pc)
    /\ UNCHANGED <<version, method, A, ntri, n, C, L, U, thunkSet, thunkVal, T,
                   nalloc, failedAt, failedInfo>>

\* LAGr_mxm (C, mask, NULL, s, a, b, desc)
Mxm ==
    /\ pc = "mxm"
    /\ \/ /\ Proceed(live, thunkSet)
          /\ LET g == MxmArgs(method)
             IN  C' = GrB_mxm(n, Operand(g.mask), StructuralMask(version),
                              HasPair(version), Operand(g.a), Operand(g.b),
                              TransposeSecond(g.desc))
       \/ /\ \E s \in FailureCodes : Abort(s, live, thunkSet)
          /\ UNCHANGED C
    /\ UNCHANGED <<version, method, A, ntri, n, L, U, thunkVal, T, nalloc>>

\* LAGr_reduce (ntri, NULL, sum, C, NULL)
Reduce ==
    /\ pc = "reduce"
    /\ \/ /\ Proceed(live, thunkSet)
          /\ ntri' = GrB_reduce(C)
       \/ /\ \E s \in FailureCodes : Abort(s, live, thunkSet)
          /\ UNCHANGED ntri
    /\ UNCHANGED <<version, method, A, n, C, L, U, thunkVal, T, nalloc>>

\* (*ntri) /= 6 of case 1 and (*ntri) /= 2 of case 2 (the sums are never
\* negative, so the truncating division of C is \div)
Divide ==
    /\ pc = "divide"
    /\ ntri' = ntri \div Divisor(method)
    /\ pc' = NextPc(pc)
    /\ UNCHANGED <<version, method, A, info, n, C, L, U, thunkSet, thunkVal, T,
                   live, nalloc, failedAt, failedInfo, trace>>

\* LAGRAPH_FREE_ALL ; return (GrB_SUCCESS)
Return ==
    /\ pc = "free_all"
    /\ live' = TricountFreeAll(live)
    /\ info' = "GrB_SUCCESS"
    /\ pc' = "done"
    /\ UNCHANGED <<version, method, A, ntri, n, C, L, U, thunkSet, thunkVal, T,
                   nalloc, failedAt, failedInfo, trace>>

Next ==
    \/ Matrix_nrows
    \/ Matrix_new
    \/ Switch
    \/ Scalar_new
    \/ Scalar_setElement
    \/ Select
    \/ Matrix_nvals
    \/ Malloc
    \/ Matrix_extractTuples
    \/ RemoveUpperLoop
    \/ Matrix_build
    \/ PrepReturn
    \/ Mxm
    \/ Reduce
    \/ Divide
    \/ Return

Spec == Init /\ [][Next]_vars

\* ------------------------------------------- the two functions as operators
\* tricount_prep (L, U, A) when every primitive succeeds: the matrices it
\* leaves in *L and *U (an unrequested one stays empty)
tricount_prep(v, M, wantL, wantU) ==
    IF HasSelect(v)
    THEN [L |-> IF wantL THEN GxB_select(SelectOp("p_selL"), M,
                                         ThunkValue("p_setL"))
                ELSE EmptyMatrix,
          U |-> IF wantU THEN GxB_select(SelectOp("p_selU"), M,
                                         ThunkValue("p_setU"))
                ELSE EmptyMatrix]
    ELSE LET t == RemoveUpper(GrB_Matrix_extractTuples(M), 1, 0)
         IN  [L |-> IF wantL THEN GrB_Matrix_build(t.I, t.J, t.X, t.nedges)
                    ELSE EmptyMatrix,
              U |-> IF wantU THEN GrB_Matrix_build(t.J, t.I, t.X, t.nedges)
                    ELSE EmptyMatrix]

\* the count LAGraph_tricount (&ntri, m, A) stores when it returns GrB_SUCCESS
LAGraph_tricount(m, v, k, M) ==
    LET P == tricount_prep(v, M, WantL(m), WantU(m))
        g == MxmArgs(m)
        Op(name) == CASE name = "A" -> M [] name = "L" -> P.L
                      [] name = "U" -> P.U
        Cm == GrB_mxm(k, Op(g.mask), StructuralMask(v), HasPair(v),
                      Op(g.a), Op(g.b), TransposeSecond(g.desc))
        r == GrB_reduce(Cm)
    IN  IF HasDivide(m) THEN r \div Divisor(m) ELSE r

\* ------------------------------------------------------ reference notions
\* unordered triples of nodes that are pairwise adjacent in S
Triangles(S, k) ==
    {t \in SUBSET Nodes(k) :
        /\ Cardinality(t) = 3
        /\ \A i \in t : \A j \in t : i # j => <<i, j>> \in S}
NoDiagonal(M) == \A p \in DOMAIN M : p[1] # p[2]
Binary(M) == \A p \in DOMAIN M : M[p] = 1
OffDiagonal(M) == [p \in {q \in DOMAIN M : q[1] # q[2]} |-> M[p]]
Positions(l) == {i \in 1..Len(trace) : trace[i] = l}
PrepCompleted == UsesPrep(method) /\ pc \in {"mxm", "reduce", "divide", "free_all"}

\* ------------------------------------------------------------------ claims
Returned == pc = "done"
Succeeded == pc = "done" /\ info = "GrB_SUCCESS"
Matrices == {"C", "L", "U"}

\* C1: for a symmetric A without diagonal entries and a method in 1..6, a call
\* in which no primitive fails stores in *ntri the number of unordered node
\* triples that are pairwise adjacent (A binary where the semiring multiplies).
C1_EveryMethodCountsTriangles ==
    (/\ Returned
     /\ method \in 1..6
     /\ failedAt = "none"
     /\ NoDiagonal(A.m)
     /\ (HasPair(version) \/ Binary(A.m)))
    => ntri = Cardinality(Triangles(DOMAIN A.m, A.dim))

\* C2: a call with a method outside 1..6 allocates nothing at any point and,
\* when it returns, returns GrB_INVALID_VALUE with nothing left allocated.
C2_InvalidMethodAllocatesNothing ==
    method \notin 1..6 =>
        /\ nalloc = 0
        /\ live = {}
        /\ (Returned /\ failedAt = "none") => info = "GrB_INVALID_VALUE"

\* C3: for a method in 1..6, once a primitive has failed the call has returned
\* that primitive's status, has issued nothing after it and holds none of C, L,
\* U; and a call that returns GrB_SUCCESS holds none of C, L, U.
C3_FailureReleasesAndSurfaces ==
    method \in 1..6 =>
        /\ failedAt # "none" =>
              /\ Returned
              /\ info = failedInfo
              /\ trace[Len(trace)] = failedAt
              /\ live \cap Matrices = {}
        /\ Succeeded => live \cap Matrices = {}

\* C4: *ntri differs from its value before the call only after a successful
\* reduce, from where the call can only return GrB_SUCCESS; a call that
\* returns another status leaves *ntri as it was.
C4_NtriWrittenOnlyOnSuccess ==
    ntri # NtriBefore => (pc \in {"divide", "free_all"} \/ Succeeded)
C4_Witness ==
    /\ Returned
    /\ failedAt = "reduce"
    /\ info = failedInfo
    /\ GrB_reduce(C) > 0
    /\ ntri = NtriBefore

\* C5: for a symmetric A without diagonal entries, once tricount_prep has
\* completed, L (when requested) is exactly the entries of A below the
\* diagonal and U (when requested) exactly those above; when both are
\* requested they are disjoint, together they are A, and L transposed is U.
C5_PrepSplitsA ==
    (PrepCompleted /\ NoDiagonal(A.m)) =>
        /\ WantL(method) =>
              DOMAIN L = {p \in DOMAIN A.m : p[1] > p[2]}
        /\ WantU(method) =>
              DOMAIN U = {p \in DOMAIN A.m : p[1] < p[2]}
        /\ (WantL(method) /\ WantU(method)) =>
              /\ DOMAIN L \cap DOMAIN U = {}
              /\ DOMAIN L \cup DOMAIN U = DOMAIN A.m
              /\ DOMAIN Transpose(L) = DOMAIN U
              /\ NoDiagonal(L) /\ NoDiagonal(U)
C5_Witness ==
    /\ PrepCompleted
    /\ method = 2
    /\ NoDiagonal(A.m)
    /\ Cardinality(DOMAIN L) = 3
    /\ Cardinality(DOMAIN U) = 3

\* C6: in the build with the PAIR semiring and the structural mask, the count
\* a successful call returns for a symmetric A without diagonal entries is the
\* count of the same method on every input with the same stored positions and
\* other stored values.
C6_CountIgnoresValues ==
    (Succeeded /\ HasPair(version) /\ NoDiagonal(A.m)) =>
        \A w \in Weightings :
            ntri = LAGraph_tricount(method, version, A.dim,
                                    InputMatrix(DOMAIN A.m, w))
C6_Witness ==
    /\ Succeeded
    /\ HasPair(version)
    /\ NoDiagonal(A.m)
    /\ \E p \in DOMAIN A.m : A.m[p] = 0
    /\ \E p \in DOMAIN A.m : A.m[p] = 2
    /\ ntri = 1

\* C7: a call with a method in 1..6 in which no primitive fails returns
\* GrB_SUCCESS (a call returns a failure only for an invalid method or a
\* failed primitive).
C7_NoFailureMeansSuccess ==
    (Returned /\ method \in 1..6 /\ failedAt = "none") => info = "GrB_SUCCESS"

\* C8: mxm and reduce are issued at most once each; reduce only after mxm has
\* succeeded; for methods 2..6 mxm only after tricount_prep has run to its end
\* having built each of L and U that the mxm names; method 1 issues nothing of
\* tricount_prep.
C8_SplitMultiplyReduce ==
    /\ Cardinality(Positions("mxm")) <= 1
    /\ Cardinality(Positions("reduce")) <= 1
    /\ \A i \in Positions("reduce") :
          /\ failedAt # "mxm"
          /\ \E j \in Positions("mxm") : j < i
    /\ \A i \in Positions("mxm") :
          UsesPrep(method) =>
              \E e \in Positions("p_free") :
                  /\ e < i
                  /\ \A name \in {MxmArgs(method).mask, MxmArgs(method).a,
                                  MxmArgs(method).b} \cap {"L", "U"} :
                        \E b \in 1..(e - 1) :
                            trace[b] = IF name = "L"
                                       THEN (IF HasSelect(version) THEN "p_selL"
                                                                   ELSE "p_buildL")
                                       ELSE (IF HasSelect(version) THEN "p_selU"
                                                                   ELSE "p_buildU")
    /\ method = 1 => \A i \in 1..Len(trace) : ~InPrep(trace[i])
C8_Witness ==
    /\ Succeeded
    /\ method = 5
    /\ Positions("mxm") # {}
    /\ Positions("reduce") # {}

\* C9: for a symmetric A without diagonal entries and each request (L only, U
\* only, both), the L and U that the extractTuples branch builds have the
\* stored positions of L = tril (A,-1) and U = triu (A,1) of the GxB_select
\* branch.
C9_ExtractEqualsSelect ==
    (PrepCompleted /\ ~HasSelect(version) /\ NoDiagonal(A.m)) =>
        LET S == tricount_prep("3_0_1", A.m, WantL(method), WantU(method))
        IN  /\ WantL(method) => DOMAIN L = DOMAIN S.L
            /\ WantU(method) => DOMAIN U = DOMAIN S.U
C9_Witness ==
    /\ PrepCompleted
    /\ ~HasSelect(version)
    /\ method = 2
    /\ NoDiagonal(A.m)
    /\ Cardinality(DOMAIN L) = 3
    /\ T.nedges = 3

\* C10: for methods 3..6 and a symmetric A with any diagonal entries, the
\* count a successful call returns is the count of the same method on A with
\* its diagonal entries removed.
C10_SandiaIgnoresDiagonal ==
    (Succeeded /\ method \in 3..6) =>
        ntri = LAGraph_tricount(method, version, A.dim, OffDiagonal(A.m))
C10_Witness ==
    /\ Succeeded
    /\ method \in 3..6
    /\ \E p \in DOMAIN A.m : p[1] = p[2]
    /\ ntri = 1

====
